---- MODULE Spec2Model ----
(***************************************************************************)
(* Model of src/task_impl/unpark_handle.rs: the type-erased UnparkHandle   *)
(* (Borrowed / Owned data plus an UnparkVtable) and the persisted          *)
(* UnparkObj built from it.                                                *)
(*                                                                         *)
(* A byte buffer is modelled by the value whose representation it holds:   *)
(* every value of the user's type T and every Arc<T> ever created is an    *)
(* entry of insts, and a buffer (a handle's data, an object's data) names  *)
(* the entry whose bytes it contains.  A bitwise copy of a buffer names    *)
(* the same entry; a Clone::clone creates a new one.                       *)
(***************************************************************************)
EXTENDS Integers, Sequences, FiniteSets, TLC

\* const MAX_OBJ_BYTES : usize = 64
MAX_OBJ_BYTES == 64

\* size_of::<Arc<T>>() for a sized T: one pointer
ARC_BYTES == 8

\* bounds of the exploration
MaxHandles == 3
MaxObjs == 3
MaxUnparks == 2
MaxCalls == 5

\* size_of::<T>() of the user's payload type, drawn per behaviour
Sizes == {0, MAX_OBJ_BYTES - 1, MAX_OBJ_BYTES, MAX_OBJ_BYTES + 1}

\* logical notify targets a payload may deliver to
Targets == {1, 2}

\* the threads that hold Objects
Threads == {1, 2}

VARIABLES
    pSize,        \* size_of::<T>() of the user's type T
    pTarget,      \* the target the user's value notifies
    insts,        \* every value created: user's T values and Arc<T> references
    allocs,       \* the Arc heap allocations (ArcInner): strong count, payload
    handles,      \* every UnparkHandle created
    objs,         \* every UnparkObj created
    notified,     \* per target: how many Unpark::unpark calls of T reached it
    ctbCalls,     \* calls of UnparkVtable::clone_to_byte_buffer
    tClones,      \* calls of T::clone (the user's Clone impl)
    persists,     \* calls of UnparkObj::from(&UnparkHandle)
    objClones,    \* calls of UnparkObj::clone
    unparkCalls,  \* calls of UnparkObj::unpark
    panicked,     \* some call panicked (assert! in obliviate)
    ub,           \* some call touched a freed allocation
    lastTry,      \* what the last call of try_by_clone returned
    byCloneCalls, \* calls of UnparkHandle::by_clone
    boxedCalls,   \* calls of UnparkHandle::boxed
    written,      \* the most bytes one copy_nonoverlapping put in a buffer
    thr,          \* per thread: the call it is in the middle of
    twin          \* the same run with boxed in place of the by_clone fallback

vars == <<pSize, pTarget, insts, allocs, handles, objs, notified, ctbCalls,
          tClones, persists, objClones, unparkCalls, panicked, ub, lastTry,
          byCloneCalls, boxedCalls, written, thr, twin>>

\* the program state as one record, so that an operation is a function on it
World ==
    [insts |-> insts, allocs |-> allocs, handles |-> handles, objs |-> objs,
     notified |-> notified, ctbCalls |-> ctbCalls, tClones |-> tClones,
     persists |-> persists, objClones |-> objClones,
     unparkCalls |-> unparkCalls, panicked |-> panicked, ub |-> ub,
     lastTry |-> lastTry, byCloneCalls |-> byCloneCalls,
     boxedCalls |-> boxedCalls, written |-> written]

\* the program state becomes w and the twin t
Assign(w, t) ==
    /\ insts' = w.insts
    /\ allocs' = w.allocs
    /\ handles' = w.handles
    /\ objs' = w.objs
    /\ notified' = w.notified
    /\ ctbCalls' = w.ctbCalls
    /\ tClones' = w.tClones
    /\ persists' = w.persists
    /\ objClones' = w.objClones
    /\ unparkCalls' = w.unparkCalls
    /\ panicked' = w.panicked
    /\ ub' = w.ub
    /\ lastTry' = w.lastTry
    /\ byCloneCalls' = w.byCloneCalls
    /\ boxedCalls' = w.boxedCalls
    /\ written' = w.written
    /\ twin' = t
    /\ UNCHANGED <<pSize, pTarget>>

\* a call that runs from start to end with no other thread in between
Commit(w, t) == Assign(w, t) /\ UNCHANGED thr

\* a thread that is between calls
Idle == [pc |-> "idle", obj |-> 0, tmp |-> 0, old |-> 0]

\* the user's original value, the one handles borrow from
Orig == 1

\* size_of::<X>() for the erased type X
SizeOf(ty) == IF ty = "Arc" THEN ARC_BYTES ELSE pSize

\* a value of the user's type T
TValue(target, origin, src) ==
    [ty |-> "T", target |-> target, alloc |-> 0, live |-> TRUE, dips |-> 0,
     dtors |-> 0, notifies |-> 0, origin |-> origin, src |-> src]

\* an Arc<T> pointing at allocation a
ArcValue(a, origin, src) ==
    [ty |-> "Arc", target |-> 0, alloc |-> a, live |-> TRUE, dips |-> 0,
     dtors |-> 0, notifies |-> 0, origin |-> origin, src |-> src]

\* the newest value / allocation / handle / object of a world
LastInst(w) == Len(w.insts)
LastAlloc(w) == Len(w.allocs)
LastHandle(w) == Len(w.handles)
LastObj(w) == Len(w.objs)

\* the bytes at i hold a value of the type the table vt was generated for
Paired(w, vt, i) == i \in DOMAIN w.insts /\ w.insts[i].ty = vt


(***************************************************************************)
(* The erased value's own operations, reached through a raw reinterpret    *)
(* of the bytes at i as the type vt                                        *)
(***************************************************************************)

\* <X as Clone>::clone(&*(data as *const X)): T::clone makes a new value of
\* T with the same target, Arc::clone a new reference and strong + 1
CloneValue(w, vt, i, origin) ==
    IF ~Paired(w, vt, i) THEN [w EXCEPT !.ub = TRUE]
    ELSE IF vt = "T"
    THEN [w EXCEPT !.insts = Append(@, TValue(w.insts[i].target, origin, i)),
                   !.tClones = @ + 1,
                   !.ub = @ \/ ~w.insts[i].live]
    ELSE LET a == w.insts[i].alloc IN
         IF w.allocs[a].freed
         THEN [w EXCEPT !.insts = Append(@, ArcValue(a, origin, i)),
                        !.ub = TRUE]
         ELSE [w EXCEPT !.insts = Append(@, ArcValue(a, origin, i)),
                        !.allocs[a].strong = @ + 1]

\* the destructor of the value at i: via = 1 when it runs through the
\* table's drop_in_place, 0 when the value is dropped as an ordinary local.
\* Arc::drop lowers strong and at zero drops the payload and frees; on an
\* allocation already freed the build may run the payload's destructor
\* again (u) or not.
DropValue(w, vt, i, via, u) ==
    IF ~Paired(w, vt, i) THEN [w EXCEPT !.ub = TRUE]
    ELSE IF vt = "T"
    THEN [w EXCEPT !.insts[i].live = FALSE,
                   !.insts[i].dtors = @ + 1,
                   !.insts[i].dips = @ + via,
                   !.ub = @ \/ ~w.insts[i].live]
    ELSE LET a == w.insts[i].alloc
             p == w.allocs[a].payload
         IN  IF w.allocs[a].freed
             THEN [w EXCEPT !.insts[i].live = FALSE,
                            !.insts[i].dtors = @ + 1,
                            !.insts[i].dips = @ + via,
                            !.insts[p].dtors = @ + (IF u THEN 1 ELSE 0),
                            !.ub = TRUE]
             ELSE IF w.allocs[a].strong = 1
             THEN [w EXCEPT !.insts[i].live = FALSE,
                            !.insts[i].dtors = @ + 1,
                            !.insts[i].dips = @ + via,
                            !.insts[p].live = FALSE,
                            !.insts[p].dtors = @ + 1,
                            !.allocs[a].strong = 0,
                            !.allocs[a].freed = TRUE]
             ELSE [w EXCEPT !.insts[i].live = FALSE,
                            !.insts[i].dtors = @ + 1,
                            !.insts[i].dips = @ + via,
                            !.allocs[a].strong = @ - 1]

\* <X as Unpark>::unpark(&*(data as *const X)): T notifies its target, an
\* Arc<T> forwards to the payload of its allocation; through a dangling
\* Arc the notify may reach the stale payload (u) or not
NotifyValue(w, vt, i, u) ==
    IF ~Paired(w, vt, i) THEN [w EXCEPT !.ub = TRUE]
    ELSE IF vt = "T"
    THEN [w EXCEPT !.notified[w.insts[i].target] = @ + 1,
                   !.insts[i].notifies = @ + 1,
                   !.ub = @ \/ ~w.insts[i].live]
    ELSE LET a == w.insts[i].alloc
             p == w.allocs[a].payload
         IN  IF w.allocs[a].freed
             THEN IF u
                  THEN [w EXCEPT !.notified[w.insts[p].target] = @ + 1,
                                 !.insts[p].notifies = @ + 1,
                                 !.ub = TRUE]
                  ELSE [w EXCEPT !.ub = TRUE]
             ELSE [w EXCEPT !.notified[w.insts[p].target] = @ + 1,
                            !.insts[p].notifies = @ + 1]

(***************************************************************************)
(* obliviate and the three entries of UnparkVtable                         *)
(***************************************************************************)

\* the larger of two byte counts
Max(a, b) == IF a >= b THEN a ELSE b

\* obliviate::<X>(victim): assert!(size < MAX_OBJ_BYTES); on failure the
\* panic unwinds and drops victim, otherwise size bytes of victim are
\* copied into the buffer and victim is forgotten
Obliviate(w, ty, i) ==
    IF SizeOf(ty) < MAX_OBJ_BYTES
    THEN [w EXCEPT !.written = Max(@, SizeOf(ty))]
    ELSE [DropValue(w, ty, i, 0, FALSE) EXCEPT !.panicked = TRUE]

\* a call that creates a value returned a buffer holding it: the value is
\* the newest one and was not dropped by an unwind
Returned(w, w1) ==
    LastInst(w1) > LastInst(w) /\ w1.insts[LastInst(w1)].live

\* UnparkVtable::clone_to_byte_buffer::<X>(data) = obliviate(clone)
CloneToByteBuffer(w, vt, i) ==
    LET w1 == CloneValue([w EXCEPT !.ctbCalls = @ + 1], vt, i, "ctb") IN
    IF LastInst(w1) > LastInst(w) THEN Obliviate(w1, vt, LastInst(w1)) ELSE w1

\* UnparkVtable::drop_in_place::<X>(data)
DropInPlace(w, vt, i, u) == DropValue(w, vt, i, 1, u)

\* UnparkVtable::call_unpark::<X>(data)
CallUnpark(w, vt, i, u) == NotifyValue(w, vt, i, u)


(***************************************************************************)
(* UnparkHandle                                                            *)
(***************************************************************************)

\* struct UnparkHandle { data : Data, vtable : UnparkVtable }; ctor and
\* copyOf record where the handle came from
Handle(kind, i, vt, ctor, copyOf) ==
    [kind |-> kind, inst |-> i, vt |-> vt, live |-> TRUE, ctor |-> ctor,
     copyOf |-> copyOf]

\* the Result of try_by_clone: Ok(handle) or Err(UnparkTooLarge(size))
TryResult(size, ok) ==
    [called |-> TRUE, size |-> size, ok |-> ok,
     err |-> IF ok THEN 0 ELSE size]

\* try_by_clone with the size test off by one: a payload of exactly
\* MAX_OBJ_BYTES is refused
TryByCloneW_Strict(w, ctor) ==
    IF pSize < MAX_OBJ_BYTES
    THEN [w EXCEPT !.handles = Append(@, Handle("Borrowed", Orig, "T", ctor, 0)),
                   !.lastTry = TryResult(pSize, TRUE)]
    ELSE [w EXCEPT !.lastTry = TryResult(pSize, FALSE)]

\* UnparkHandle::try_by_clone(&unpark): Borrowed view of the caller's
\* value and the table of T when size <= MAX_OBJ_BYTES, the error otherwise
TryByCloneW(w, ctor) ==
    IF pSize <= MAX_OBJ_BYTES
    THEN [w EXCEPT !.handles = Append(@, Handle("Borrowed", Orig, "T", ctor, 0)),
                   !.lastTry = TryResult(pSize, TRUE)]
    ELSE [w EXCEPT !.lastTry = TryResult(pSize, FALSE)]

\* UnparkHandle::boxed(unpark) for the value at p, moved in: Arc::new, the
\* Arc obliviated into an Owned buffer, the table of Arc<T>
BoxedW(w, p, ctor) ==
    LET a  == LastAlloc(w) + 1
        r  == LastInst(w) + 1
        w1 == [w EXCEPT !.allocs = Append(@, [strong |-> 1, payload |-> p,
                                               freed |-> FALSE]),
                        !.insts = Append(@, ArcValue(a, "arcnew", p)),
                        !.boxedCalls = @ + 1]
        w2 == Obliviate(w1, "Arc", r)
    IN  IF w2.insts[r].live
        THEN [w2 EXCEPT !.handles = Append(@, Handle("Owned", r, "Arc", ctor, 0))]
        ELSE w2

\* by_clone whose fallback keeps the table of T for the Arc's bytes
ByCloneW_TableOfT(w) ==
    LET t == TryByCloneW([w EXCEPT !.byCloneCalls = @ + 1], "by_clone") IN
    IF t.lastTry.ok
    THEN t
    ELSE LET c == CloneValue(t, "T", Orig, "clone")
             b == BoxedW(c, LastInst(c), "by_clone")
         IN  [b EXCEPT !.handles[LastHandle(b)].vt = "T"]

\* by_clone that unwraps the result of try_by_clone instead of falling
\* back: an oversized payload panics and no handle is returned
ByCloneW_Unwrap(w) ==
    LET t == TryByCloneW([w EXCEPT !.byCloneCalls = @ + 1], "by_clone") IN
    IF t.lastTry.ok THEN t ELSE [t EXCEPT !.panicked = TRUE]

\* UnparkHandle::by_clone(&unpark): try_by_clone, and on Err
\* boxed(unpark.clone())
ByCloneW(w) ==
    LET t == TryByCloneW([w EXCEPT !.byCloneCalls = @ + 1], "by_clone") IN
    IF t.lastTry.ok
    THEN t
    ELSE LET c == CloneValue(t, "T", Orig, "clone") IN
         BoxedW(c, LastInst(c), "by_clone")

\* boxed that stores a clone of the value it was given
BoxedMovedW_Cloning(w, ctor) ==
    LET m == [w EXCEPT !.insts = Append(@, TValue(pTarget, "moved", 0))]
        c == CloneValue(m, "T", LastInst(m), "clone")
    IN  BoxedW(c, LastInst(c), ctor)

\* boxed on a value the caller built and gives away
BoxedMovedW(w, ctor) ==
    LET m == [w EXCEPT !.insts = Append(@, TValue(pTarget, "moved", 0))] IN
    BoxedW(m, LastInst(m), ctor)

\* #[derive(Clone)] on UnparkHandle and Data: the slice reference or the
\* ByteBuffer is copied as it is, the table too
HandleCloneW(w, h) ==
    [w EXCEPT !.handles = Append(@, [w.handles[h] EXCEPT !.live = TRUE,
                                                         !.copyOf = h])]

\* a handle drop that runs drop_in_place whatever the ownership state
HandleDropW_Always(w, h, u) ==
    DropInPlace([w EXCEPT !.handles[h].live = FALSE], w.handles[h].vt,
                w.handles[h].inst, u)

\* impl Drop for UnparkHandle: drop_in_place on the buffer when Owned
HandleDropW(w, h, u) ==
    LET w1 == [w EXCEPT !.handles[h].live = FALSE] IN
    IF w.handles[h].kind = "Owned"
    THEN DropInPlace(w1, w.handles[h].vt, w.handles[h].inst, u)
    ELSE w1

(***************************************************************************)
(* UnparkObj                                                               *)
(***************************************************************************)

\* struct UnparkObj { data : ByteBuffer, vtable : UnparkVtable }; parent,
\* hsrc, ctor and unparks record the object's history
Obj(i, vt, parent, hsrc, ctor) ==
    [inst |-> i, vt |-> vt, live |-> TRUE, parent |-> parent, hsrc |-> hsrc,
     ctor |-> ctor, unparks |-> 0]

\* UnparkObj::new(data, vtable): data = (vtable.clone_to_byte_buffer)(data)
UnparkObjNew(w, i, vt, parent, hsrc, ctor) ==
    LET w1 == CloneToByteBuffer(w, vt, i) IN
    IF Returned(w, w1)
    THEN [w1 EXCEPT !.objs = Append(@, Obj(LastInst(w1), vt, parent, hsrc, ctor))]
    ELSE w1

\* a conversion that calls the duplicate entry twice
PersistW_Twice(w, h) ==
    LET w1 == CloneToByteBuffer([w EXCEPT !.persists = @ + 1],
                                w.handles[h].vt, w.handles[h].inst)
    IN  UnparkObjNew(w1, w.handles[h].inst, w.handles[h].vt, 0, h,
                     w.handles[h].ctor)

\* a conversion that copies the handle's bytes instead of calling the
\* duplicate entry
PersistW_Bitwise(w, h) ==
    [w EXCEPT !.persists = @ + 1,
              !.objs = Append(@, Obj(w.handles[h].inst, w.handles[h].vt, 0, h,
                                     w.handles[h].ctor))]

\* impl From<&UnparkHandle> for UnparkObj
PersistW(w, h) ==
    UnparkObjNew([w EXCEPT !.persists = @ + 1], w.handles[h].inst,
                 w.handles[h].vt, 0, h, w.handles[h].ctor)

\* an object clone that copies the buffer instead of calling the table
ObjCloneW_Bitwise(w, o) ==
    [w EXCEPT !.objClones = @ + 1,
              !.objs = Append(@, Obj(w.objs[o].inst, w.objs[o].vt, o,
                                     w.objs[o].hsrc, w.objs[o].ctor))]

\* impl Clone for UnparkObj: Self::new(&clone_to_byte_buffer(&self.data).0,
\* self.vtable); the temporary buffer is a plain byte array and is not
\* dropped through the table
ObjCloneW(w, o) ==
    LET w0 == [w EXCEPT !.objClones = @ + 1]
        w1 == CloneToByteBuffer(w0, w.objs[o].vt, w.objs[o].inst)
    IN  IF Returned(w0, w1)
        THEN UnparkObjNew(w1, LastInst(w1), w.objs[o].vt, o, w.objs[o].hsrc,
                          w.objs[o].ctor)
        ELSE w1

\* an object drop that forgets to call the table's drop_in_place
ObjDropW_Leak(w, o, u) == [w EXCEPT !.objs[o].live = FALSE]

\* impl Drop for UnparkObj
ObjDropW(w, o, u) ==
    DropInPlace([w EXCEPT !.objs[o].live = FALSE], w.objs[o].vt,
                w.objs[o].inst, u)

\* an unpark that takes the value out of the buffer and drops it after
\* the call
UnparkW_Consuming(w, o, u) ==
    DropInPlace(CallUnpark([w EXCEPT !.unparkCalls = @ + 1,
                                     !.objs[o].unparks = @ + 1],
                           w.objs[o].vt, w.objs[o].inst, u),
                w.objs[o].vt, w.objs[o].inst, u)

\* impl Unpark for UnparkObj
UnparkW(w, o, u) ==
    CallUnpark([w EXCEPT !.unparkCalls = @ + 1, !.objs[o].unparks = @ + 1],
               w.objs[o].vt, w.objs[o].inst, u)

\* the caller's own value goes out of scope
OwnerDropW(w) == DropValue(w, "T", Orig, 0, FALSE)

(***************************************************************************)
(* The state machine                                                       *)
(***************************************************************************)

InitWorld(t) ==
    [insts |-> <<TValue(t, "user", 0)>>, allocs |-> <<>>, handles |-> <<>>,
     objs |-> <<>>, notified |-> [x \in Targets |-> 0], ctbCalls |-> 0,
     tClones |-> 0, persists |-> 0, objClones |-> 0, unparkCalls |-> 0,
     panicked |-> FALSE, ub |-> FALSE,
     lastTry |-> [called |-> FALSE, size |-> 0, ok |-> FALSE, err |-> 0],
     byCloneCalls |-> 0, boxedCalls |-> 0, written |-> 0]

Init ==
    /\ pSize \in Sizes
    /\ pTarget \in Targets
    /\ insts = InitWorld(pTarget).insts
    /\ allocs = <<>>
    /\ handles = <<>>
    /\ objs = <<>>
    /\ notified = [x \in Targets |-> 0]
    /\ ctbCalls = 0
    /\ tClones = 0
    /\ persists = 0
    /\ objClones = 0
    /\ unparkCalls = 0
    /\ panicked = FALSE
    /\ ub = FALSE
    /\ lastTry = InitWorld(pTarget).lastTry
    /\ byCloneCalls = 0
    /\ boxedCalls = 0
    /\ written = 0
    /\ thr = [t \in Threads |-> Idle]
    /\ twin = InitWorld(pTarget)

LiveHandles == {h \in DOMAIN handles : handles[h].live}
LiveObjs == {o \in DOMAIN objs : objs[o].live}
OrigBorrowed == \E h \in LiveHandles : handles[h].kind = "Borrowed"

\* the number of calls made so far
Calls ==
    Len(handles) + persists + objClones + unparkCalls
    + Cardinality(DOMAIN handles \ LiveHandles)
    + Cardinality(DOMAIN objs \ LiveObjs)
    + (IF insts[Orig].live THEN 0 ELSE 1)

\* a &T can only be taken while the caller's value is alive
TryByClone ==
    /\ Calls < MaxCalls
    /\ insts[Orig].live
    /\ Len(handles) < MaxHandles
    /\ Commit(TryByCloneW(World, "try_by_clone"),
              TryByCloneW(twin, "try_by_clone"))

\* in the twin run the fallback of by_clone is replaced by boxed on an
\* equal payload
ByClone ==
    /\ Calls < MaxCalls
    /\ insts[Orig].live
    /\ Len(handles) < MaxHandles
    /\ Commit(ByCloneW(World),
              IF pSize <= MAX_OBJ_BYTES THEN ByCloneW(twin)
              ELSE BoxedMovedW(twin, "boxed"))

Boxed ==
    /\ Calls < MaxCalls
    /\ Len(handles) < MaxHandles
    /\ Commit(BoxedMovedW(World, "boxed"), BoxedMovedW(twin, "boxed"))

HandleClone(h) ==
    /\ Calls < MaxCalls
    /\ h \in LiveHandles
    /\ Len(handles) < MaxHandles
    /\ Commit(HandleCloneW(World, h), HandleCloneW(twin, h))

HandleDrop(h) ==
    /\ Calls < MaxCalls
    /\ h \in LiveHandles
    /\ \E u, v \in BOOLEAN :
          Commit(HandleDropW(World, h, u), HandleDropW(twin, h, v))

Persist(h) ==
    /\ Calls < MaxCalls
    /\ h \in LiveHandles
    /\ Len(objs) < MaxObjs
    /\ persists < MaxObjs
    /\ Commit(PersistW(World, h), PersistW(twin, h))

ObjClone(o) ==
    /\ Calls < MaxCalls
    /\ o \in LiveObjs
    /\ Len(objs) < MaxObjs
    /\ Commit(ObjCloneW(World, o), ObjCloneW(twin, o))

ObjDrop(o) ==
    /\ Calls < MaxCalls
    /\ o \in LiveObjs
    /\ \E u, v \in BOOLEAN :
          Commit(ObjDropW(World, o, u), ObjDropW(twin, o, v))

Unpark(o) ==
    /\ Calls < MaxCalls
    /\ o \in LiveObjs
    /\ unparkCalls < MaxUnparks
    /\ \E u, v \in BOOLEAN :
          Commit(UnparkW(World, o, u), UnparkW(twin, o, v))

\* the borrow checker keeps the value alive while a Borrowed handle is
OwnerDrop ==
    /\ Calls < MaxCalls
    /\ insts[Orig].live
    /\ ~OrigBorrowed
    /\ Commit(OwnerDropW(World), OwnerDropW(twin))

Next ==
    \/ TryByClone
    \/ ByClone
    \/ Boxed
    \/ \E h \in DOMAIN handles : HandleClone(h)
    \/ \E h \in DOMAIN handles : HandleDrop(h)
    \/ \E h \in DOMAIN handles : Persist(h)
    \/ \E o \in DOMAIN objs : ObjClone(o)
    \/ \E o \in DOMAIN objs : ObjDrop(o)
    \/ \E o \in DOMAIN objs : Unpark(o)
    \/ OwnerDrop

Spec == Init /\ [][Next]_vars


(***************************************************************************)
(* Properties                                                              *)
(***************************************************************************)

\* the payload copies made by the table's duplicate entry
CtbInsts == {i \in DOMAIN insts : insts[i].origin = "ctb"}

\* C1: destroy-exactly-once for persisted Objects: once every Object
\* (the persisted ones and all their duplicates) has been dropped, every
\* payload copy that clone_to_byte_buffer created has been destroyed exactly
\* once, and the drop_in_place calls on those copies number one per Object.
C1_DestroyExactlyOnce ==
    (Len(objs) > 0 /\ LiveObjs = {}) =>
        /\ \A i \in CtbInsts : insts[i].dtors = 1
        /\ Cardinality({i \in CtbInsts : insts[i].dips = 1}) = Len(objs)

\* C2: no owned payload reference (the Arc held in an Owned handle's or an
\* Object's buffer) is passed to drop_in_place more than once.
C2_NoDoubleDestroy ==
    \A i \in DOMAIN insts : insts[i].ty = "Arc" => insts[i].dips <= 1

\* C3: once a constructor has returned a handle, converting it into an
\* UnparkObj, cloning, invoking and dropping never panic.
C3_NoPanicAfterConstruction == ~panicked

\* C4: try_by_clone on a payload of size s returns Ok exactly when
\* s <= MAX_OBJ_BYTES and otherwise Err(UnparkTooLarge(s)) carrying s.
C4_CapacityBoundary ==
    lastTry.called =>
        /\ lastTry.size = pSize
        /\ lastTry.ok <=> (pSize <= MAX_OBJ_BYTES)
        /\ ~lastTry.ok => (lastTry.err = pSize /\ pSize > MAX_OBJ_BYTES)

\* C4 witness: a payload of MAX_OBJ_BYTES + 1 bytes was refused with its size
C4_Witness ==
    /\ lastTry.called
    /\ ~lastTry.ok
    /\ lastTry.err = MAX_OBJ_BYTES + 1

\* C5: Borrowed handles, cloned or not, never run drop_in_place on the
\* bytes they borrow: the caller's value is alive while a Borrowed handle
\* is, and is destroyed at most once, by its owner and not through a table.
C5_BorrowNonDestruction ==
    /\ \A h \in DOMAIN handles :
          handles[h].kind = "Borrowed" =>
              /\ handles[h].inst = Orig
              /\ insts[handles[h].inst].dips = 0
              /\ handles[h].live => insts[handles[h].inst].live
    /\ insts[Orig].dips = 0
    /\ insts[Orig].dtors = IF insts[Orig].live THEN 0 ELSE 1

\* C5 witness: a Borrowed handle and a clone of it were both discarded,
\* nothing was persisted, and the caller's value is still alive
C5_Witness ==
    /\ persists = 0
    /\ insts[Orig].live
    /\ \E h, k \in DOMAIN handles :
          /\ handles[h].kind = "Borrowed"
          /\ handles[k].copyOf = h
          /\ ~handles[h].live
          /\ ~handles[k].live


\* what a run shows of a world: the notify calls, the shared counts and
\* frees, and per value its type, the destructor runs and drop_in_place
\* calls, and per handle and object the ownership state and the table
Observed(w) ==
    [notified |-> w.notified,
     counts |-> [a \in DOMAIN w.allocs |->
                   [strong |-> w.allocs[a].strong, freed |-> w.allocs[a].freed]],
     values |-> [i \in DOMAIN w.insts |->
                   [ty |-> w.insts[i].ty, live |-> w.insts[i].live,
                    dips |-> w.insts[i].dips, dtors |-> w.insts[i].dtors,
                    notifies |-> w.insts[i].notifies]],
     handles |-> [h \in DOMAIN w.handles |->
                   [kind |-> w.handles[h].kind, vt |-> w.handles[h].vt,
                    inst |-> w.handles[h].inst, live |-> w.handles[h].live]],
     objs |-> [o \in DOMAIN w.objs |->
                   [vt |-> w.objs[o].vt, inst |-> w.objs[o].inst,
                    live |-> w.objs[o].live]],
     panicked |-> w.panicked]

\* C6: fallback equivalence: for a payload larger than MAX_OBJ_BYTES,
\* by_clone returns without error an Owned handle whose buffer holds an Arc
\* of a fresh allocation with the table of Arc<T>, and as long as no call
\* has touched freed memory the run shows the same notify calls, shared
\* counts and destroy calls as the run in which boxed built the handle.
C6_FallbackEquivalence ==
    pSize > MAX_OBJ_BYTES =>
        /\ ~panicked
        /\ \A h \in DOMAIN handles :
              handles[h].ctor = "by_clone" =>
                  /\ handles[h].kind = "Owned"
                  /\ handles[h].vt = "Arc"
                  /\ insts[handles[h].inst].ty = "Arc"
                  /\ insts[allocs[insts[handles[h].inst].alloc].payload].target
                        = pTarget
        /\ ~ub => Observed(World) = Observed(twin)

\* C6 witness: a handle that by_clone built for an oversized payload was
\* persisted, the Object duplicated, invoked and dropped
C6_Witness ==
    /\ pSize > MAX_OBJ_BYTES
    /\ \E o, d \in DOMAIN objs :
          /\ objs[o].ctor = "by_clone"
          /\ objs[d].parent = o
          /\ objs[o].unparks + objs[d].unparks > 0
          /\ ~objs[o].live \/ ~objs[d].live

\* the Owned handle an Object came from was never copied by
\* UnparkHandle::clone (the claim's run consists of construction,
\* conversion, Object clones, invocations and drops)
Pristine(o) ==
    LET h == objs[o].hsrc IN
    handles[h].kind = "Owned" =>
        /\ handles[h].copyOf = 0
        /\ \A k \in DOMAIN handles : handles[k].copyOf # h

\* the value an Object's unpark reaches
Payload(o) ==
    IF objs[o].vt = "T" THEN objs[o].inst
    ELSE allocs[insts[objs[o].inst].alloc].payload

\* the Object's bytes hold a value that was not destroyed
Valid(o) ==
    /\ insts[objs[o].inst].live
    /\ insts[Payload(o)].live
    /\ objs[o].vt = "Arc" => ~allocs[insts[objs[o].inst].alloc].freed

\* the Objects whose unpark reaches the same value as o's
Sharing(o) == {x \in DOMAIN objs : Payload(x) = Payload(o)}

RECURSIVE SumUnparks(_)
SumUnparks(S) ==
    IF S = {} THEN 0
    ELSE LET x == CHOOSE y \in S : TRUE IN
         objs[x].unparks + SumUnparks(S \ {x})

\* C7: round-trip duplication: an Object and its duplicate both deliver to
\* the target of the value the handle was built from, every invocation of
\* either delivers exactly one notify, and each of the two stays valid
\* while alive, whether or not the other has been dropped.
C7_RoundTripDuplication ==
    \A d \in DOMAIN objs :
        (objs[d].parent # 0 /\ Pristine(d)) =>
            LET o == objs[d].parent IN
            /\ insts[Payload(o)].target = pTarget
            /\ insts[Payload(d)].target = pTarget
            /\ objs[o].live => Valid(o)
            /\ objs[d].live => Valid(d)
            /\ insts[Payload(o)].notifies = SumUnparks(Sharing(o))
            /\ insts[Payload(d)].notifies = SumUnparks(Sharing(d))

\* C7 witness: the duplicate was invoked after the original was dropped
C7_Witness ==
    \E d \in DOMAIN objs :
        /\ objs[d].parent # 0
        /\ Pristine(d)
        /\ ~objs[objs[d].parent].live
        /\ objs[d].live
        /\ objs[d].unparks > 0
        /\ notified[pTarget] > 0

\* C8: invoke-then-destroy ordering: for an Object persisted from a
\* try_by_clone handle, k invocations are k notify calls on its payload
\* copy, whose destructor has not run while the Object is alive and has
\* run exactly once, through drop_in_place, once the Object is dropped.
C8_InvokeThenDestroy ==
    \A o \in DOMAIN objs :
        objs[o].ctor = "try_by_clone" =>
            /\ insts[objs[o].inst].notifies = objs[o].unparks
            /\ insts[objs[o].inst].target = pTarget
            /\ insts[objs[o].inst].dtors = IF objs[o].live THEN 0 ELSE 1
            /\ insts[objs[o].inst].dips = IF objs[o].live THEN 0 ELSE 1
            /\ insts[objs[o].inst].live = objs[o].live

\* C8 witness: persisted from try_by_clone, invoked twice, then dropped
C8_Witness ==
    \E o \in DOMAIN objs :
        /\ objs[o].ctor = "try_by_clone"
        /\ objs[o].parent = 0
        /\ objs[o].unparks = 2
        /\ notified[pTarget] = 2
        /\ ~objs[o].live

\* what an Object stores: its bytes, its table and whether it was dropped
Stored(os) ==
    [o \in DOMAIN os |->
        [inst |-> os[o].inst, vt |-> os[o].vt, live |-> os[o].live]]

\* the state of every value but the count of notify calls it received
Untouched(is) ==
    [i \in DOMAIN is |->
        [ty |-> is[i].ty, alloc |-> is[i].alloc, live |-> is[i].live,
         dips |-> is[i].dips, dtors |-> is[i].dtors]]

\* C9: invocation is non-consuming: a step of UnparkObj::unpark leaves
\* every Object's bytes, table and ownership, every handle and every shared
\* count as they were, creates no value, and calls neither the duplicate
\* nor the destroy entry.
C9_UnparkNonConsuming ==
    [][unparkCalls' # unparkCalls =>
          /\ Stored(objs') = Stored(objs)
          /\ handles' = handles
          /\ allocs' = allocs
          /\ Untouched(insts') = Untouched(insts)
          /\ ctbCalls' = ctbCalls
          /\ tClones' = tClones]_vars

\* C9 witness: the same live Object was invoked twice
C9_Witness ==
    \E o \in LiveObjs : objs[o].unparks = 2 /\ Valid(o)

\* C10: deferred duplication: a step that builds a Borrowed handle calls no
\* clone, creates no value and allocates nothing; the duplicate entry is
\* called only by conversions into an UnparkObj and by Object clones, and a
\* conversion calls it exactly once, on the bytes of a live handle.
C10_DeferredDuplication ==
    [][/\ (Len(handles') > Len(handles)
             /\ handles'[Len(handles')].kind = "Borrowed") =>
              /\ ctbCalls' = ctbCalls
              /\ tClones' = tClones
              /\ allocs' = allocs
              /\ insts' = insts
       /\ ctbCalls' # ctbCalls =>
              (persists' # persists \/ objClones' # objClones)
       /\ persists' # persists =>
              /\ persists' = persists + 1
              /\ ctbCalls' = ctbCalls + 1
              /\ Len(insts') = Len(insts) + 1
              /\ insts'[Len(insts')].origin = "ctb"
              /\ \E h \in LiveHandles :
                    /\ insts'[Len(insts')].src = handles[h].inst
                    /\ insts'[Len(insts')].ty = handles[h].vt]_vars

\* C10 witness: one Borrowed handle was converted twice, each conversion
\* one call of the duplicate entry and one clone of the payload
C10_Witness ==
    /\ Len(handles) = 1
    /\ handles[1].kind = "Borrowed"
    /\ persists = 2
    /\ ctbCalls = 2
    /\ tClones = 2
    /\ Len(objs) = 2


\* C11: by_clone and boxed are total: whatever the payload size, a call of
\* either returns a live handle built by that constructor and does not
\* panic.
C11_ByCloneAndBoxedTotal ==
    [][(byCloneCalls' # byCloneCalls \/ boxedCalls' # boxedCalls) =>
          /\ Len(handles') = Len(handles) + 1
          /\ handles'[Len(handles')].live
          /\ handles'[Len(handles')].ctor \in {"by_clone", "boxed"}
          /\ handles'[Len(handles')].copyOf = 0
          /\ panicked' = panicked]_vars

\* C11 witness: for a payload larger than MAX_OBJ_BYTES, where try_by_clone
\* gives the error, by_clone and boxed both returned a handle, no panic
C11_Witness ==
    /\ pSize > MAX_OBJ_BYTES
    /\ ~panicked
    /\ lastTry.called /\ ~lastTry.ok
    /\ \E h, k \in LiveHandles :
          handles[h].ctor = "by_clone" /\ handles[k].ctor = "boxed"

\* C12: the ownership state follows from the construction path:
\* try_by_clone gives Borrowed, by_clone gives Borrowed when the size is
\* <= MAX_OBJ_BYTES and Owned otherwise, boxed gives Owned; and a call of
\* boxed alone calls neither the payload's clone nor the duplicate entry.
C12_OwnershipByPath ==
    /\ [](\A h \in DOMAIN handles :
            /\ handles[h].ctor = "try_by_clone" =>
                  (handles[h].kind = "Borrowed" /\ pSize <= MAX_OBJ_BYTES)
            /\ handles[h].ctor = "by_clone" =>
                  handles[h].kind = (IF pSize <= MAX_OBJ_BYTES
                                     THEN "Borrowed" ELSE "Owned")
            /\ handles[h].ctor = "boxed" => handles[h].kind = "Owned")
    /\ [][(boxedCalls' # boxedCalls /\ byCloneCalls' = byCloneCalls) =>
             (tClones' = tClones /\ ctbCalls' = ctbCalls)]_vars

\* C12 witness: for a payload of exactly MAX_OBJ_BYTES the three
\* constructors returned Borrowed, Borrowed and Owned
C12_Witness ==
    /\ pSize = MAX_OBJ_BYTES
    /\ \E a, b, c \in DOMAIN handles :
          /\ handles[a].ctor = "try_by_clone" /\ handles[a].kind = "Borrowed"
          /\ handles[b].ctor = "by_clone" /\ handles[b].kind = "Borrowed"
          /\ handles[c].ctor = "boxed" /\ handles[c].kind = "Owned"
    /\ tClones = 0


\* the live Owned handles and live Objects whose buffer holds an Arc of
\* allocation a
Holders(a) ==
    Cardinality({h \in LiveHandles :
                    /\ handles[h].kind = "Owned"
                    /\ insts[handles[h].inst].alloc = a})
    + Cardinality({o \in LiveObjs : insts[objs[o].inst].alloc = a})

\* C14: shared-count stepping: conversions and Object clones raise the
\* shared count by one each and drops lower it by one each, so that the
\* count of every allocation equals the number of live Owned handles and
\* live Objects that reference it, and the payload is freed exactly when
\* the last of them has been dropped.
C14_SharedCountStepping ==
    \A a \in DOMAIN allocs :
        /\ allocs[a].strong = Holders(a)
        /\ allocs[a].freed <=> (Holders(a) = 0)
        /\ insts[allocs[a].payload].dtors = IF allocs[a].freed THEN 1 ELSE 0

\* C15: a persisted Object is independently owned: a conversion leaves
\* every handle as it was, and an Object (from a handle that was not itself
\* copied while Owned) holds a value of its own: alive as long as the Object
\* is, whatever happened to the source handle, and passed to drop_in_place
\* exactly once when the Object is dropped.
C15_IndependentlyOwned ==
    /\ [][persists' # persists => handles' = handles]_vars
    /\ [](\A o \in DOMAIN objs :
            Pristine(o) =>
                /\ objs[o].live => Valid(o)
                /\ insts[objs[o].inst].dips = IF objs[o].live THEN 0 ELSE 1
                /\ \A x \in DOMAIN objs :
                      x # o => objs[x].inst # objs[o].inst
                /\ \A h \in DOMAIN handles :
                      handles[h].inst # objs[o].inst)

\* C15 witness: one Owned handle was converted twice and dropped, and an
\* Object made from it was invoked afterwards
C15_Witness ==
    \E o, x \in DOMAIN objs :
        /\ o # x
        /\ objs[o].parent = 0 /\ objs[x].parent = 0
        /\ objs[o].hsrc = objs[x].hsrc
        /\ Pristine(o)
        /\ handles[objs[o].hsrc].kind = "Owned"
        /\ ~handles[objs[o].hsrc].live
        /\ objs[o].live /\ Valid(o)
        /\ objs[o].unparks > 0
        /\ notified[pTarget] > 0

\* the type a constructor erases: the caller's T on the inline paths, the
\* Arc on the boxed path, the by_clone fallback and for a handle from &Arc<T>
Erased(ctor) ==
    IF \/ ctor \in {"boxed", "from_arc"}
       \/ (ctor = "by_clone" /\ pSize > MAX_OBJ_BYTES)
    THEN "Arc" ELSE "T"

\* C16: table/bytes pairing: every handle and every Object pairs its bytes
\* with the table of the type stored in them (T inline, Arc<T> on the
\* heap paths), the table never changes, and no table entry is applied to
\* bytes whose value was already destroyed: a live handle's or Object's
\* bytes hold a live value and no value is destroyed twice.
C16_TableBytesPairing ==
    /\ \A h \in DOMAIN handles :
          /\ Paired(World, handles[h].vt, handles[h].inst)
          /\ handles[h].vt = Erased(handles[h].ctor)
          /\ handles[h].live => insts[handles[h].inst].live
    /\ \A o \in DOMAIN objs :
          /\ Paired(World, objs[o].vt, objs[o].inst)
          /\ objs[o].vt = Erased(objs[o].ctor)
          /\ objs[o].live => insts[objs[o].inst].live
    /\ \A i \in DOMAIN insts : insts[i].dips <= 1
    /\ ~ub


(***************************************************************************)
(* src/task_impl/UnparkObject.rs: the earlier UnparkObj, an inline array   *)
(* of MAX_OBJ_BYTES bytes with the function pointers call_unpark::<T> and  *)
(* call_force_drop::<T>; its bytes are produced by call_clone::<T>         *)
(***************************************************************************)

\* call_clone::<T>(obj): x.clone(), then size_of::<T>() bytes of the clone
\* are copied into a fresh [0; MAX_OBJ_BYTES] and the clone is forgotten;
\* there is no test of the size.  The array returned is held by an UnparkObj
CallCloneW(w, i, parent) ==
    LET w1 == CloneValue([w EXCEPT !.objClones = @ + 1], "T", i, "call_clone")
    IN  [w1 EXCEPT !.written = Max(@, SizeOf("T")),
                   !.objs = Append(@, Obj(LastInst(w1), "T", parent, 0,
                                          "call_clone"))]

\* impl Unpark for UnparkObj: (self.unpark_obj)(self.obj), call_unpark::<T>
CallUnparkObjW(w, o) ==
    NotifyValue([w EXCEPT !.unparkCalls = @ + 1, !.objs[o].unparks = @ + 1],
                "T", w.objs[o].inst, FALSE)

\* call_force_drop::<T>(obj): ptr::drop_in_place on the bytes as a T
CallForceDropW(w, o) ==
    DropValue([w EXCEPT !.objs[o].live = FALSE], "T", w.objs[o].inst, 1, FALSE)

\* call_clone on the bytes of the caller's value
CallCloneOrig ==
    /\ Calls < MaxCalls
    /\ insts[Orig].live
    /\ Len(objs) < MaxObjs
    /\ Commit(CallCloneW(World, Orig, 0), CallCloneW(twin, Orig, 0))

\* call_clone on the bytes an UnparkObj holds
CallCloneObj(o) ==
    /\ Calls < MaxCalls
    /\ o \in LiveObjs
    /\ Len(objs) < MaxObjs
    /\ Commit(CallCloneW(World, objs[o].inst, o),
              CallCloneW(twin, objs[o].inst, o))

CallUnparkObj(o) ==
    /\ Calls < MaxCalls
    /\ o \in LiveObjs
    /\ unparkCalls < MaxUnparks
    /\ Commit(CallUnparkObjW(World, o), CallUnparkObjW(twin, o))

CallForceDrop(o) ==
    /\ Calls < MaxCalls
    /\ o \in LiveObjs
    /\ Commit(CallForceDropW(World, o), CallForceDropW(twin, o))

NextObject ==
    \/ CallCloneOrig
    \/ \E o \in DOMAIN objs : CallCloneObj(o)
    \/ \E o \in DOMAIN objs : CallUnparkObj(o)
    \/ \E o \in DOMAIN objs : CallForceDrop(o)
    \/ OwnerDrop

SpecObject == Init /\ [][NextObject]_vars

ArcNewW(w) ==
    LET m == [w EXCEPT !.insts = Append(@, TValue(pTarget, "moved", 0))] IN
    [m EXCEPT !.allocs = Append(@, [strong |-> 1, payload |-> LastInst(m),
                                     freed |-> FALSE]),
              !.insts = Append(@, ArcValue(LastAlloc(m) + 1, "arcnew",
                                           LastInst(m)))]

\* impl From<&Arc<T>> for UnparkHandle = by_clone(&arc) at the type Arc<T>:
\* size_of::<Arc<T>>() = ARC_BYTES <= MAX_OBJ_BYTES, so try_by_clone
\* returns a Borrowed view of the caller's arc with the table of Arc<T>
FromArcW(w, i) ==
    [w EXCEPT !.byCloneCalls = @ + 1,
              !.handles = Append(@, Handle("Borrowed", i, "Arc", "from_arc", 0)),
              !.lastTry = TryResult(ARC_BYTES, TRUE)]

\* the caller's arc, the one the twin's handle borrows
CallerArc == twin.handles[1].inst

\* the caller's arc goes out of scope
ArcOwnerDropW(w, i, u) == DropValue(w, "Arc", i, 0, u)

BoxedOrFromArc ==
    /\ Len(handles) = 0
    /\ Commit(BoxedMovedW(World, "boxed"),
              LET t == ArcNewW(twin) IN FromArcW(t, LastInst(t)))

\* drops end every run and are not counted against MaxCalls
ArcHandleDrop(h) ==
    /\ h \in LiveHandles
    /\ \E u, v \in BOOLEAN :
          Commit(HandleDropW(World, h, u), HandleDropW(twin, h, v))

ArcObjDrop(o) ==
    /\ o \in LiveObjs
    /\ \E u, v \in BOOLEAN :
          Commit(ObjDropW(World, o, u), ObjDropW(twin, o, v))

\* the borrow of the handle ends before the caller's arc is dropped
ArcOwnerDrop ==
    /\ Len(handles) = 1
    /\ LiveHandles = {}
    /\ twin.insts[CallerArc].live
    /\ \E v \in BOOLEAN : Commit(World, ArcOwnerDropW(twin, CallerArc, v))

NextArc ==
    \/ BoxedOrFromArc
    \/ \E h \in DOMAIN handles : Persist(h)
    \/ \E o \in DOMAIN objs : ObjClone(o)
    \/ \E o \in DOMAIN objs : Unpark(o)
    \/ \E h \in DOMAIN handles : ArcHandleDrop(h)
    \/ \E o \in DOMAIN objs : ArcObjDrop(o)
    \/ ArcOwnerDrop

SpecArc == Init /\ [][NextArc]_vars

\* the handle, every Object and the caller's arc have been dropped
AllDropped ==
    /\ Len(handles) = 1
    /\ LiveHandles = {}
    /\ LiveObjs = {}
    /\ ~twin.insts[CallerArc].live

\* the shared count is zero and the payload was freed exactly once
FreedOnce(w) ==
    \A a \in DOMAIN w.allocs :
        /\ w.allocs[a].strong = 0
        /\ w.allocs[a].freed
        /\ w.insts[w.allocs[a].payload].dtors = 1

\* C17: boxed(v) is equivalent to Arc::new(v) followed by by_clone(&arc):
\* after the same persist / notify / duplicate / destroy calls both have
\* delivered the same notify calls, and once the handle, all Objects and
\* the caller's arc are dropped, both have shared count zero and the payload
\* freed exactly once.
C17_BoxedEquivalentToArc ==
    /\ notified = twin.notified
    /\ \A o \in DOMAIN objs :
          /\ objs[o].unparks = twin.objs[o].unparks
          /\ objs[o].live = twin.objs[o].live
    /\ AllDropped => FreedOnce(World) /\ FreedOnce(twin)


(***************************************************************************)
(* Objects of one heap allocation used from several threads.  The Arc's    *)
(* count is atomic: Arc::clone is one fetch_add, Arc::drop one fetch_sub   *)
(* followed, in the thread that read 1, by the payload's destructor and    *)
(* the free.  UnparkObj::clone is two calls of clone_to_byte_buffer, with  *)
(* other threads' steps in between.                                        *)
(***************************************************************************)

\* Arc::drop, first half, on the Arc at i: strong.fetch_sub(1, Release);
\* the Arc itself is gone whatever the count was
ArcFetchSub(w, i, via) ==
    LET a == w.insts[i].alloc IN
    [w EXCEPT !.insts[i].live = FALSE,
              !.insts[i].dtors = @ + 1,
              !.insts[i].dips = @ + via,
              !.allocs[a].strong = IF w.allocs[a].freed THEN @ ELSE @ - 1,
              !.ub = @ \/ w.allocs[a].freed \/ ~w.insts[i].live]

\* a drop that reads the count again after its decrement instead of using
\* the value fetch_sub returned
ShouldFree_Reread(w, a, old) == w.allocs[a].strong = 0

\* Arc::drop: if fetch_sub(..) != 1 { return }
ShouldFree(w, a, old) == old = 1

\* Arc::drop_slow: the payload's destructor and the free; on an allocation
\* already freed the build may run the destructor again (u) or not
ArcDropSlow(w, a, u) ==
    LET p == w.allocs[a].payload IN
    IF w.allocs[a].freed
    THEN [w EXCEPT !.insts[p].dtors = @ + (IF u THEN 1 ELSE 0), !.ub = TRUE]
    ELSE [w EXCEPT !.insts[p].live = FALSE,
                   !.insts[p].dtors = @ + 1,
                   !.allocs[a].freed = TRUE]

\* Arc::drop, second half, in a thread whose fetch_sub returned old
ArcDropEnd(w, i, old, u) ==
    IF ShouldFree(w, w.insts[i].alloc, old)
    THEN ArcDropSlow(w, w.insts[i].alloc, u)
    ELSE w

\* the threads in the middle of UnparkObj::clone
Cloning == {t \in Threads : thr[t].pc = "cloning"}

\* UnparkObj::clone, first call of clone_to_byte_buffer: the temporary
\* buffer holds a new Arc
ConcCloneBeginW(w, o) ==
    CloneToByteBuffer([w EXCEPT !.objClones = @ + 1], w.objs[o].vt,
                      w.objs[o].inst)

ConcCloneBegin(t, o) ==
    /\ Calls < MaxCalls
    /\ thr[t].pc = "idle"
    /\ o \in LiveObjs
    /\ objs[o].vt = "Arc"
    /\ Len(objs) + Cardinality(Cloning) < MaxObjs
    /\ Assign(ConcCloneBeginW(World, o), ConcCloneBeginW(twin, o))
    /\ thr' = [thr EXCEPT ![t] = [pc |-> "cloning", obj |-> o,
                                  tmp |-> LastInst(World) + 1, old |-> 0]]

\* UnparkObj::clone, Self::new on the temporary buffer: the second call of
\* clone_to_byte_buffer and the new Object
ConcCloneEndW(w, o, i) ==
    UnparkObjNew(w, i, w.objs[o].vt, o, w.objs[o].hsrc, w.objs[o].ctor)

ConcCloneEnd(t) ==
    /\ thr[t].pc = "cloning"
    /\ Assign(ConcCloneEndW(World, thr[t].obj, thr[t].tmp),
              ConcCloneEndW(twin, thr[t].obj, thr[t].tmp))
    /\ thr' = [thr EXCEPT ![t] = Idle]

\* Drop for UnparkObj up to the fetch_sub of the Arc in its buffer
ConcObjDropBeginW(w, o) ==
    ArcFetchSub([w EXCEPT !.objs[o].live = FALSE], w.objs[o].inst, 1)

\* an Object is dropped by the thread that owns it, so no other thread is
\* in a call on it
ConcObjDropBegin(t, o) ==
    /\ Calls < MaxCalls
    /\ thr[t].pc = "idle"
    /\ o \in LiveObjs
    /\ objs[o].vt = "Arc"
    /\ \A x \in Cloning : thr[x].obj # o
    /\ Assign(ConcObjDropBeginW(World, o), ConcObjDropBeginW(twin, o))
    /\ thr' = [thr EXCEPT ![t] = [pc |-> "dropping", obj |-> o,
                                  tmp |-> objs[o].inst,
                                  old |-> allocs[insts[objs[o].inst].alloc].strong]]

\* Drop for UnparkHandle (Owned) up to the fetch_sub
ConcHandleDropBeginW(w, h) ==
    ArcFetchSub([w EXCEPT !.handles[h].live = FALSE], w.handles[h].inst, 1)

ConcHandleDropBegin(t, h) ==
    /\ Calls < MaxCalls
    /\ thr[t].pc = "idle"
    /\ h \in LiveHandles
    /\ handles[h].kind = "Owned"
    /\ Assign(ConcHandleDropBeginW(World, h), ConcHandleDropBeginW(twin, h))
    /\ thr' = [thr EXCEPT ![t] = [pc |-> "dropping", obj |-> 0,
                                  tmp |-> handles[h].inst,
                                  old |-> allocs[insts[handles[h].inst].alloc].strong]]

\* the rest of the drop: the thread that took the count to zero frees
ConcDropEnd(t) ==
    /\ thr[t].pc = "dropping"
    /\ \E u \in BOOLEAN :
          Assign(ArcDropEnd(World, thr[t].tmp, thr[t].old, u),
                 ArcDropEnd(twin, thr[t].tmp, thr[t].old, u))
    /\ thr' = [thr EXCEPT ![t] = Idle]

\* the one allocation the threads' Objects share
ConcBoxed ==
    /\ Len(handles) = 0
    /\ Commit(BoxedMovedW(World, "boxed"), BoxedMovedW(twin, "boxed"))

\* boxed, the conversion and unpark touch the count at most once and are
\* single steps of whichever thread makes them
NextConc ==
    \/ ConcBoxed
    \/ \E h \in DOMAIN handles : Persist(h)
    \/ \E o \in DOMAIN objs : Unpark(o)
    \/ \E t \in Threads : \E o \in DOMAIN objs : ConcCloneBegin(t, o)
    \/ \E t \in Threads : ConcCloneEnd(t)
    \/ \E t \in Threads : \E o \in DOMAIN objs : ConcObjDropBegin(t, o)
    \/ \E t \in Threads : \E h \in DOMAIN handles : ConcHandleDropBegin(t, h)
    \/ \E t \in Threads : ConcDropEnd(t)

SpecConc == Init /\ [][NextConc]_vars

\* the Arcs that still point at allocation a: in the buffer of a live Owned
\* handle or a live Object, or in the temporary buffer of a clone under way
Referencing(a) ==
    {h \in LiveHandles : handles[h].kind = "Owned"
                         /\ insts[handles[h].inst].alloc = a}
    \cup {o \in LiveObjs : insts[objs[o].inst].alloc = a}
    \cup {t \in Cloning : insts[thr[t].tmp].alloc = a}

\* C13: concurrent duplication and destruction of heap-backed Objects is
\* safe: under every interleaving of the steps of UnparkObj::clone, unpark
\* and drop made by different threads, no call touches a freed allocation,
\* an allocation is freed only when no live Object, Owned handle or clone
\* under way references it, and its payload is destroyed at most once.
C13_ConcurrentSafety ==
    /\ ~ub
    /\ \A a \in DOMAIN allocs :
          /\ allocs[a].freed => Referencing(a) = {}
          /\ insts[allocs[a].payload].dtors <= 1
          /\ allocs[a].strong >= Cardinality(Referencing(a))

\* C13 witness: one thread freed the allocation while another, whose
\* fetch_sub came first, is still inside its drop
C13_Witness ==
    \E t \in Threads :
        /\ thr[t].pc = "dropping"
        /\ thr[t].old > 1
        /\ allocs[insts[thr[t].tmp].alloc].freed
        /\ unparkCalls > 0

====
